---- MODULE Spec2Model ----
(***************************************************************************)
(* LocalBOT: the text chunker (rag/pipeline.js, chunkText), the document   *)
(* ingestion / deletion handlers and the search and chat handlers          *)
(* (ipcHandlers.js) over the metadata store (db/repository.js), the vector *)
(* index (rag/elasticsearch.js) and the local models (rag/localai.js).     *)
(*                                                                         *)
(* A text is a sequence of one-character strings, a word a non-empty       *)
(* sequence of non-whitespace characters.  Array indices of the source are *)
(* 0-based; sequences here are 1-based, so words[i] of the source is       *)
(* words[i + 1] here.                                                      *)
(*                                                                         *)
(* The handlers are registered after initDB, initElasticsearch and initAI  *)
(* have returned (main.js), so in the application the database and the     *)
(* index are open in every state; the models may have failed to load.      *)
(* VectorSpec drives the exports of rag/elasticsearch.js directly, from a  *)
(* module whose initElasticsearch has not run.  Every await of a handler   *)
(* or task is a point where the others may run.  The audit log is not      *)
(* part of the state.  The cache (cache/redis.js) holds the one entry the  *)
(* handlers use, "documents:list"; the preload bridge (preload.js) is the  *)
(* page's only way to the handlers.                                        *)
(*                                                                         *)
(* Vectra (LocalIndex) and node-llama-cpp are libraries: a call to one is  *)
(* a single step that either has the effect its name states or throws.     *)
(* Which items a query ranks first is decided inside Vectra, so a query    *)
(* returns some k of the stored items (all of them when fewer are stored). *)
(***************************************************************************)
EXTENDS Integers, Sequences, FiniteSets, TLC

VARIABLES
    ck,         \* one call of chunkText: its arguments, locals and position
    embedder,   \* localai.js `embedder`: TRUE when the embedding model loaded
    nextId,     \* the next fresh document id (uuidv4 never repeats)
    docs,       \* table documents: id -> row
    chunkRows,  \* table chunks: set of <<document_id, chunk_index>>
    index,      \* the Vectra index: set of items (document_id, chunk_index)
    tasks,      \* the background ingestion task of each uploaded document
    reply,      \* what documents:upload returned, per document id
    del,        \* the deleteDocumentChunks call in flight, per document id
    opened,     \* elasticsearch.js `index` is a LocalIndex (not null)
    created,    \* the index storage exists on disk
    api,        \* the direct call of rag/elasticsearch.js in flight, and the last
    qry,        \* the search:query request
    chats,      \* the chat:query requests
    sessions,   \* table chat_sessions: set of session ids
    messages,   \* table chat_messages: set of rows
    llamaContext, \* localai.js `llamaContext`: TRUE when a GGUF model loaded
    held,       \* context sequences obtained by getSequence and not disposed
    cache,      \* cache/redis.js: the entry under the key "documents:list"
    lst,        \* documents:list: how many calls returned, and the last reply
    bridge      \* preload.js: the channels invoke sent to the main process,
                \* and how the last invoke ended

queryVars == <<opened, created, api, qry, chats, sessions, messages,
               llamaContext, held>>

sideVars == <<cache, lst, bridge>>

vars == <<ck, embedder, nextId, docs, chunkRows, index, tasks, reply, del,
          opened, created, api, qry, chats, sessions, messages,
          llamaContext, held, cache, lst, bridge>>

ingestVars == <<embedder, nextId, docs, chunkRows, index, tasks, reply, del>>

----------------------------------------------------------------------------
(* Bounds of the model *)

MaxWords == 4       \* words in a generated text
MaxArg == 3         \* largest chunkSize / overlap argument tried
MaxDocs == 2        \* documents uploaded in one run
MaxChats == 2       \* chat:query requests in one run
MaxLists == 2       \* documents:list calls in one run
MaxLimit == 51      \* the largest limit a caller passes to search:query
BookWords == 520    \* words of the long file (two chunks under the defaults)

(* Program constants *)

DEFAULT_CHUNK_SIZE == 500
DEFAULT_CHUNK_OVERLAP == 50
CONTEXT_SIZE == 1024    \* contextSize of llamaModel.createContext, in tokens
Sequences == 1          \* createContext sets no `sequences`: the context has one

----------------------------------------------------------------------------
(* JavaScript helpers used by chunkText *)

Min(a, b) == IF a < b THEN a ELSE b

Max(a, b) == IF a > b THEN a ELSE b

\* The characters /\s/ matches, among those the texts use.
Whitespace == {" ", "\n"}

\* The members of the set S of integers that lie in lo..hi, ascending.
RECURSIVE Ascending(_, _, _)
Ascending(S, lo, hi) ==
    IF lo > hi THEN <<>>
    ELSE IF lo = hi THEN (IF lo \in S THEN <<lo>> ELSE <<>>)
    ELSE Ascending(S, lo, (lo + hi) \div 2)
            \o Ascending(S, (lo + hi) \div 2 + 1, hi)

\* text.split(/\s+/).filter(Boolean): the maximal runs of non-whitespace
\* characters, in order.
SplitWords(text) ==
    LET n == Len(text)
        IsWs(p) == text[p] \in Whitespace
        starts == {p \in 1..n : ~IsWs(p) /\ (p = 1 \/ IsWs(p - 1))}
        ends == {p \in 1..n : ~IsWs(p) /\ (p = n \/ IsWs(p + 1))}
        startAt == Ascending(starts, 1, n)
        endAt == Ascending(ends, 1, n)
    IN  [k \in 1..Len(startAt) |-> SubSeq(text, startAt[k], endAt[k])]

\* Array.prototype.slice(start, end): 0-based, end exclusive, a negative
\* bound counts from the end of the array.
Slice(s, start, end) ==
    LET n == Len(s)
        from == IF start < 0 THEN Max(n + start, 0) ELSE Min(start, n)
        to == IF end < 0 THEN Max(n + end, 0) ELSE Min(end, n)
    IN  SubSeq(s, from + 1, to)

\* The words of ws in order, with sep between consecutive words.
RECURSIVE JoinWith(_, _)
JoinWith(ws, sep) ==
    IF Len(ws) = 0 THEN <<>>
    ELSE IF Len(ws) = 1 THEN ws[1]
    ELSE LET half == Len(ws) \div 2
         IN  JoinWith(SubSeq(ws, 1, half), sep) \o sep
                \o JoinWith(SubSeq(ws, half + 1, Len(ws)), sep)

\* chunkWords.join(" ")
Join(ws) == JoinWith(ws, <<" ">>)

----------------------------------------------------------------------------
(* chunkText *)

\* An argument is <<>> when the caller omits it (undefined) and <<n>> when
\* the caller passes the number n.
Undefined == <<>>

\* A default parameter value: taken only when the argument is undefined.
Param(arg, default) == IF arg = Undefined THEN default ELSE arg[1]

\* A step without the floor of 1: it is 0 or negative once overlap >=
\* chunkSize.
StepNoFloor(chunkSize, overlap) == chunkSize - overlap

\* A step that forgets the overlap.
StepNoOverlap(chunkSize, overlap) == Max(chunkSize, 1)

\* const step = Math.max(chunkSize - overlap, 1)
Step(chunkSize, overlap) == Max(chunkSize - overlap, 1)

\* A join that drops the separator.
ContentNoSeparator(chunkWords) == JoinWith(chunkWords, <<>>)

\* const content = chunkWords.join(" ")
Content(chunkWords) == Join(chunkWords)

\* The locals of chunkText at the top of the while loop.
ChunkLocals(words, chunkSize, overlap) ==
    [words |-> words, chunkSize |-> chunkSize, overlap |-> overlap,
     i |-> 0, idx |-> 0, charPos |-> 0, chunks |-> <<>>]

\* An accumulation that counts one separator between two chunks.
NextCharPosSeparated(endChar) == endChar + 1

\* charPos = endChar
NextCharPos(endChar) == endChar

\* A loop that stops when fewer than chunkSize words are left.
InLoopWholeWindow(st) == st.i + st.chunkSize <= Len(st.words)

\* while (i < words.length)
InLoop(st) == st.i < Len(st.words)

\* One iteration of the while loop.
ChunkIter(st) ==
    LET end == Min(st.i + st.chunkSize, Len(st.words))
        chunkWords == Slice(st.words, st.i, end)
        content == Content(chunkWords)
        endChar == st.charPos + Len(content)
    IN  [st EXCEPT !.chunks = Append(@, [content |-> content,
                                          index |-> st.idx,
                                          startChar |-> st.charPos,
                                          endChar |-> endChar]),
                   !.idx = @ + 1,
                   !.i = @ + Step(st.chunkSize, st.overlap),
                   !.charPos = NextCharPos(endChar)]

RECURSIVE ChunkRun(_)
ChunkRun(st) ==
    IF InLoop(st) THEN ChunkRun(ChunkIter(st)) ELSE st.chunks

\* chunkText(text, chunkSize, overlap) as a function of its arguments.
chunkText(text, chunkSizeArg, overlapArg) ==
    LET words == SplitWords(text)
    IN  IF Len(words) = 0 THEN <<>>
        ELSE ChunkRun(ChunkLocals(words,
                                  Param(chunkSizeArg, DEFAULT_CHUNK_SIZE),
                                  Param(overlapArg, DEFAULT_CHUNK_OVERLAP)))

----------------------------------------------------------------------------
(* The texts and arguments chunkText is run on *)

Vocab == {<<"a">>, <<"b", "c">>}

WordSeqs == UNION {[1..k -> Vocab] : k \in 0..MaxWords}

\* The same words laid out with leading, repeated and trailing whitespace.
Padded(ws) == <<" ">> \o JoinWith(ws, <<" ", "\n">>) \o <<"\n">>

FoxWords ==
    << <<"t", "h", "e">>, <<"q", "u", "i", "c", "k">>,
       <<"b", "r", "o", "w", "n">>, <<"f", "o", "x">>,
       <<"j", "u", "m", "p", "s">>, <<"o", "v", "e", "r">>,
       <<"l", "a", "z", "y">> >>

\* "the quick brown fox jumps over lazy"
FoxText == Join(FoxWords)

Texts == {Join(ws) : ws \in WordSeqs} \cup {Padded(ws) : ws \in WordSeqs}
            \cup {FoxText}

Args == {Undefined} \cup {<<n>> : n \in (0 - 2)..MaxArg}

CkIdle == [pc |-> "idle"]

\* chunkText has been called with these arguments.
CkCalled(text, chunkSizeArg, overlapArg) ==
    [pc |-> "call", text |-> text, sizeArg |-> chunkSizeArg,
     overlapArg |-> overlapArg, words |-> <<>>, chunkSize |-> 0,
     overlap |-> 0, i |-> 0, idx |-> 0, charPos |-> 0, chunks |-> <<>>]

\* Entry: defaults, the split, and the early return on no words.
ChunkCall ==
    /\ ck.pc = "call"
    /\ LET words == SplitWords(ck.text)
           st == ChunkLocals(words,
                             Param(ck.sizeArg, DEFAULT_CHUNK_SIZE),
                             Param(ck.overlapArg, DEFAULT_CHUNK_OVERLAP))
       IN  ck' = [ck EXCEPT !.words = words,
                            !.chunkSize = st.chunkSize,
                            !.overlap = st.overlap,
                            !.pc = IF Len(words) = 0 THEN "done" ELSE "loop"]
    /\ UNCHANGED ingestVars
    /\ UNCHANGED queryVars
    /\ UNCHANGED sideVars

\* while (i < words.length) { ... }
ChunkLoop ==
    /\ ck.pc = "loop"
    /\ InLoop(ck)
    /\ ck' = ChunkIter(ck)
    /\ UNCHANGED ingestVars
    /\ UNCHANGED queryVars
    /\ UNCHANGED sideVars

\* return chunks
ChunkReturn ==
    /\ ck.pc = "loop"
    /\ ~InLoop(ck)
    /\ ck' = [ck EXCEPT !.pc = "done"]
    /\ UNCHANGED ingestVars
    /\ UNCHANGED queryVars
    /\ UNCHANGED sideVars

ChunkNext == ChunkCall \/ ChunkLoop \/ ChunkReturn

----------------------------------------------------------------------------
(* Files on disk, and what parseFile and chunkText make of them *)

Files == {"empty.txt", "blank.txt", "book.txt"}

\* BookWords one-letter words separated by single spaces.
BookText == [p \in 1..(2 * BookWords - 1) |-> IF p % 2 = 1 THEN "w" ELSE " "]

FileText(f) ==
    CASE f = "empty.txt" -> <<>>
      [] f = "blank.txt" -> <<" ", "\n", " ">>
      [] f = "book.txt" -> BookText

\* chunkText(content): processDocumentContent passes neither size nor
\* overlap.
FileChunks == [f \in Files |-> chunkText(FileText(f), Undefined, Undefined)]

----------------------------------------------------------------------------
(* db/repository.js *)

Null == "null"

NoTextMsg == "No text content found in document"

ReadErrorMsg == "ENOENT: no such file or directory"

\* An insert that leaves status to the schema default, 'pending'.
createDocumentPending(filename) ==
    [filename |-> filename, status |-> "pending", error_msg |-> Null,
     chunk_count |-> 0]

\* INSERT INTO documents (..., status, ...) VALUES (..., 'processing', ...);
\* chunk_count and error_msg take the schema defaults.
createDocument(filename) ==
    [filename |-> filename, status |-> "processing", error_msg |-> Null,
     chunk_count |-> 0]

\* UPDATE documents SET status, error_msg, chunk_count WHERE id = ?: no row,
\* no change.
updateDocumentStatus(rows, id, status, errorMsg, chunkCount) ==
    IF id \in DOMAIN rows
    THEN [rows EXCEPT ![id] = [@ EXCEPT !.status = status,
                                        !.error_msg = errorMsg,
                                        !.chunk_count = chunkCount]]
    ELSE rows

\* DELETE FROM documents WHERE id = ?
deleteDocument(rows, id) == [x \in DOMAIN rows \ {id} |-> rows[x]]

\* chunks.document_id REFERENCES documents(id) ON DELETE CASCADE
cascadeChunks(rows, id) == {r \in rows : r[1] # id}

\* createChunks(dbChunks): one row per chunk, in one transaction.
createChunks(rows, id, chunks) ==
    rows \cup {<<id, chunks[k].index>> : k \in 1..Len(chunks)}

----------------------------------------------------------------------------
(* cache/redis.js, for the one key "documents:list" *)

CacheEmpty == [has |-> FALSE, value |-> <<>>]

\* cacheSet(key, value, ttlSeconds): the entry holds a copy of the value.
cacheSet(value) == [has |-> TRUE, value |-> value]

\* cacheDel(key)
cacheDel(entry) == CacheEmpty

----------------------------------------------------------------------------
(* documents:upload and its background task *)

\* for (const chunk of chunks): the next chunk, or past the loop.
LoopPc(pos, n) == IF pos < n THEN "embed" ELSE "finish"

\* A handler that parses and chunks the file before it returns.
InlineTask(f) ==
    [file |-> f, pc |-> LoopPc(0, Len(FileChunks[f])), parsed |-> TRUE,
     pos |-> 0, indexed |-> 0,
     outcome |-> [k \in 1..Len(FileChunks[f]) |-> "pending"]]

\* The setImmediate callback is queued and has not run.
ScheduledTask(f) ==
    [file |-> f, pc |-> "scheduled", parsed |-> FALSE, pos |-> 0,
     indexed |-> 0, outcome |-> <<>>]

\* A guard that lets an empty chunk list through.
NoChunksNever(chunks) == FALSE

\* if (chunks.length === 0) throw new Error("No text content found ...")
NoChunks(chunks) == Len(chunks) = 0

\* A catch that gives up on the rest of the chunks.
ChunkFailedAborts(t) ==
    [t EXCEPT !.outcome[t.pos + 1] = "failed", !.pc = "finish"]

\* The inner catch: the chunk is logged and skipped.
ChunkFailed(t) ==
    [t EXCEPT !.outcome[t.pos + 1] = "failed",
              !.pos = @ + 1,
              !.pc = LoopPc(t.pos + 1, Len(t.outcome))]

\* A catch that only logs.
CatchSilent(rows, id, msg) == rows

\* The outer catch: repo.updateDocumentStatus(doc.id, "error", err.message)
Catch(rows, id, msg) == updateDocumentStatus(rows, id, "error", msg, 0)

\* ipcMain.handle("documents:upload"): the file exists; the handler has no
\* await, so the record, the queued task and the reply are one step.
Upload(f) ==
    /\ nextId <= MaxDocs
    /\ docs' = docs @@ (nextId :> createDocument(f))
    /\ tasks' = tasks @@ (nextId :> ScheduledTask(f))
    /\ reply' = reply @@ (nextId :> docs'[nextId])
    /\ nextId' = nextId + 1
    /\ UNCHANGED <<ck, embedder, chunkRows, index, del>>
    /\ UNCHANGED queryVars
    /\ UNCHANGED sideVars

\* The task starts: parseFile, then chunkText at the head of
\* processDocumentContent.
TaskParse(d) ==
    /\ d \in DOMAIN tasks
    /\ tasks[d].pc = "scheduled"
    /\ \E readOk \in BOOLEAN :
         LET chunks == FileChunks[tasks[d].file]
         IN  IF ~readOk
             THEN /\ docs' = Catch(docs, d, ReadErrorMsg)
                  /\ tasks' = [tasks EXCEPT ![d].pc = "done"]
             ELSE IF NoChunks(chunks)
             THEN /\ docs' = Catch(docs, d, NoTextMsg)
                  /\ tasks' = [tasks EXCEPT ![d].pc = "done",
                                            ![d].parsed = TRUE]
             ELSE /\ docs' = docs
                  /\ tasks' = [tasks EXCEPT
                        ![d].parsed = TRUE,
                        ![d].outcome = [k \in 1..Len(chunks) |-> "pending"],
                        ![d].pc = LoopPc(0, Len(chunks))]
    /\ UNCHANGED <<ck, embedder, nextId, chunkRows, index, reply, del>>
    /\ UNCHANGED queryVars
    /\ UNCHANGED sideVars

\* await generateEmbedding(chunk.content): throws when the model is not
\* loaded, and may throw during inference.
TaskEmbed(d) ==
    /\ d \in DOMAIN tasks
    /\ tasks[d].pc = "embed"
    /\ \E inferOk \in BOOLEAN :
         tasks' = [tasks EXCEPT ![d] =
                     IF embedder /\ inferOk
                     THEN [@ EXCEPT !.pc = "insert"]
                     ELSE ChunkFailed(@)]
    /\ UNCHANGED <<ck, embedder, nextId, docs, chunkRows, index, reply, del>>
    /\ UNCHANGED queryVars
    /\ UNCHANGED sideVars

\* An insert that stores the item before its metadata is complete (no
\* chunk index yet: -1).
insertItemPartial(items, item) ==
    items \cup {[document_id |-> item.document_id, chunk_index |-> 0 - 1]}

\* index.insertItem({ vector, metadata }): the item is stored whole.
insertItem(items, item) == items \cup {item}

\* await indexChunk({...}); indexed++.  indexChunk throws when the module's
\* index is null, and rethrows what insertItem throws.
TaskInsert(d) ==
    /\ d \in DOMAIN tasks
    /\ tasks[d].pc = "insert"
    /\ \E writeOk \in BOOLEAN :
         IF opened /\ created /\ writeOk
         THEN /\ index' = insertItem(index,
                    [document_id |-> d,
                     chunk_index |-> FileChunks[tasks[d].file][tasks[d].pos + 1].index])
              /\ tasks' = [tasks EXCEPT
                    ![d].outcome[tasks[d].pos + 1] = "indexed",
                    ![d].indexed = @ + 1,
                    ![d].pos = @ + 1,
                    ![d].pc = LoopPc(tasks[d].pos + 1, Len(tasks[d].outcome))]
         ELSE /\ index' = index
              /\ tasks' = [tasks EXCEPT ![d] = ChunkFailed(@)]
    /\ UNCHANGED <<ck, embedder, nextId, docs, chunkRows, reply, del>>
    /\ UNCHANGED queryVars
    /\ UNCHANGED sideVars

\* processDocumentContent returns chunks: createChunks (a foreign-key error
\* when the document row is gone, caught by the outer catch), then
\* updateDocumentStatus(doc.id, "indexed", null, chunks.length) and
\* cacheDel("documents:list").
TaskFinish(d) ==
    /\ d \in DOMAIN tasks
    /\ tasks[d].pc = "finish"
    /\ LET chunks == FileChunks[tasks[d].file]
       IN  IF d \in DOMAIN docs
           THEN /\ chunkRows' = createChunks(chunkRows, d, chunks)
                /\ docs' = updateDocumentStatus(docs, d, "indexed", Null,
                                                Len(chunks))
                /\ cache' = cacheDel(cache)
           ELSE /\ chunkRows' = chunkRows
                /\ docs' = Catch(docs, d, "FOREIGN KEY constraint failed")
                /\ cache' = cache
    /\ tasks' = [tasks EXCEPT ![d].pc = "done"]
    /\ UNCHANGED <<ck, embedder, nextId, index, reply, del>>
    /\ UNCHANGED queryVars
    /\ UNCHANGED <<lst, bridge>>

TaskStep(d) == TaskParse(d) \/ TaskEmbed(d) \/ TaskInsert(d) \/ TaskFinish(d)

----------------------------------------------------------------------------
(* rag/elasticsearch.js: deleteDocumentChunks, and documents:delete *)

UninitMsg == "Vector DB not initialized"

StorageMsg == "EIO: i/o error"

\* A call of an export of rag/elasticsearch.js and how it ended: `open` is
\* whether the module's index was set when the call was made.
Called(op, doc, open, outcome, hits) ==
    [op |-> op, doc |-> doc, open |-> open, outcome |-> outcome,
     hits |-> hits]

NoCall == Called("none", 0, FALSE, "none", {})

ApiIdle == [pc |-> "idle", last |-> NoCall]

\* via: "handler" for documents:delete, "direct" for a direct call.
DelIdle == [pc |-> "idle", todo |-> {}, via |-> "handler"]

\* A listing that returns every stored item.
ItemsOfAll(items, id) == items

\* index.listItemsByMetadata({ document_id })
ItemsOf(items, id) == {it \in items : it.document_id = id}

\* The item the for loop of deleteDocumentChunks takes next.
NextItem(todo) ==
    CHOOSE it \in todo : \A other \in todo : it.chunk_index <= other.chunk_index

\* repo.getDocument finds the row; deleteDocumentChunks returns at once when
\* the module's index is null, else lists the items (a throw ends the
\* request).
DeleteStart(d) ==
    /\ d \in DOMAIN docs
    /\ del[d].pc \in {"idle", "crashed"}
    /\ \E listOk \in BOOLEAN :
         del' = IF ~opened
                THEN [del EXCEPT ![d] = [pc |-> "items", todo |-> {},
                                         via |-> "handler"]]
                ELSE IF created /\ listOk
                THEN [del EXCEPT ![d] = [pc |-> "items",
                                         todo |-> ItemsOf(index, d),
                                         via |-> "handler"]]
                ELSE del
    /\ UNCHANGED <<ck, embedder, nextId, docs, chunkRows, index, tasks, reply>>
    /\ UNCHANGED queryVars
    /\ UNCHANGED sideVars

\* await index.deleteItem(item.id): a throw ends the call (and the request:
\* the row stays).
DeleteItem(d) ==
    /\ del[d].pc = "items"
    /\ del[d].todo # {}
    /\ \E removeOk \in BOOLEAN :
         IF removeOk
         THEN /\ index' = index \ {NextItem(del[d].todo)}
              /\ del' = [del EXCEPT ![d].todo = @ \ {NextItem(del[d].todo)}]
              /\ api' = api
         ELSE /\ index' = index
              /\ del' = [del EXCEPT ![d] = DelIdle]
              /\ api' = IF del[d].via = "direct"
                        THEN [pc |-> "idle",
                              last |-> [api.last EXCEPT !.outcome = StorageMsg]]
                        ELSE api
    /\ UNCHANGED <<ck, embedder, nextId, docs, chunkRows, tasks, reply>>
    /\ UNCHANGED <<opened, created, qry, chats, sessions, messages,
                   llamaContext, held>>
    /\ UNCHANGED sideVars

\* repo.deleteDocument(doc.id), once deleteDocumentChunks has returned, and
\* cacheDel("documents:list").
DeleteRow(d) ==
    /\ del[d].pc = "items"
    /\ del[d].via = "handler"
    /\ del[d].todo = {}
    /\ docs' = deleteDocument(docs, d)
    /\ chunkRows' = cascadeChunks(chunkRows, d)
    /\ cache' = cacheDel(cache)
    /\ del' = [del EXCEPT ![d] = DelIdle]
    /\ UNCHANGED <<ck, embedder, nextId, index, tasks, reply>>
    /\ UNCHANGED queryVars
    /\ UNCHANGED <<lst, bridge>>

\* The process exits (a crash, or the app is killed) and the app is started
\* again: the database file and the index folder are as they were; the
\* background tasks, the requests in flight and the cache are gone. A
\* documents:delete that was between its steps is marked "crashed", a task
\* that had not finished "killed".
Crash ==
    /\ \/ \E d \in 1..MaxDocs : del[d].pc = "items"
       \/ \E d \in DOMAIN tasks : tasks[d].pc \notin {"done", "killed"}
    /\ del' = [d \in 1..MaxDocs |->
                 IF del[d].pc \in {"items", "crashed"}
                 THEN [del[d] EXCEPT !.pc = "crashed"]
                 ELSE DelIdle]
    /\ tasks' = [d \in DOMAIN tasks |->
                   IF tasks[d].pc = "done" THEN tasks[d]
                   ELSE [tasks[d] EXCEPT !.pc = "killed"]]
    /\ cache' = CacheEmpty
    /\ UNCHANGED <<ck, embedder, nextId, docs, chunkRows, index, reply>>
    /\ UNCHANGED queryVars
    /\ UNCHANGED <<lst, bridge>>

----------------------------------------------------------------------------
(* rag/elasticsearch.js, its exports called directly *)

\* Document ids and chunk indices of the items a direct caller inserts.
ApiItems == [document_id : 1..MaxDocs, chunk_index : 0..1]

\* The k a direct caller passes to searchSimilar (none: the default).
ApiKs == {Undefined, <<1>>}

\* No call of the module is in flight: the caller makes one call at a time.
ApiQuiet == api.pc = "idle" /\ \A d \in 1..MaxDocs : del[d].pc = "idle"

\* An initialisation that creates the index whatever it finds.
NeedsCreateAlways(isCreated) == TRUE

\* if (!(await index.isIndexCreated()))
NeedsCreate(isCreated) == ~isCreated

\* index.createIndex(): a new, empty index.
createIndex == {}

\* index.queryItems(queryEmbedding, k): k of the stored items, all of them
\* when fewer are stored.
queryItems(items, k) ==
    {hits \in SUBSET items :
        Cardinality(hits) = Min(Max(k, 0), Cardinality(items))}

\* initElasticsearch up to its first await: index = new LocalIndex(folder),
\* then isIndexCreated().
InitOpen ==
    /\ ApiQuiet
    /\ opened' = TRUE
    /\ api' = IF NeedsCreate(created)
              THEN [pc |-> "create",
                    last |-> Called("initElasticsearch", 0, opened,
                                    "pending", {})]
              ELSE [pc |-> "idle",
                    last |-> Called("initElasticsearch", 0, opened,
                                    "returned", {})]
    /\ UNCHANGED <<ck, created, qry, chats, sessions, messages, llamaContext,
                   held>>
    /\ UNCHANGED ingestVars
    /\ UNCHANGED sideVars

\* await index.createIndex()
InitCreate ==
    /\ api.pc = "create"
    /\ \E createOk \in BOOLEAN :
         IF createOk
         THEN /\ created' = TRUE
              /\ index' = createIndex
              /\ api' = [pc |-> "idle",
                         last |-> [api.last EXCEPT !.outcome = "returned"]]
         ELSE /\ created' = created
              /\ index' = index
              /\ api' = [pc |-> "idle",
                         last |-> [api.last EXCEPT !.outcome = StorageMsg]]
    /\ UNCHANGED <<ck, embedder, nextId, docs, chunkRows, tasks, reply, del>>
    /\ UNCHANGED <<opened, qry, chats, sessions, messages, llamaContext, held>>
    /\ UNCHANGED sideVars

\* indexChunk({...}) called directly.
ApiIndexChunk(item) ==
    /\ ApiQuiet
    /\ \E writeOk \in BOOLEAN :
         IF ~opened
         THEN /\ index' = index
              /\ api' = [api EXCEPT !.last =
                            Called("indexChunk", item.document_id, opened,
                                   UninitMsg, {})]
         ELSE IF created /\ writeOk
         THEN /\ index' = insertItem(index, item)
              /\ api' = [api EXCEPT !.last =
                            Called("indexChunk", item.document_id, opened,
                                   "returned", {})]
         ELSE /\ index' = index
              /\ api' = [api EXCEPT !.last =
                            Called("indexChunk", item.document_id, opened,
                                   StorageMsg, {})]
    /\ UNCHANGED <<ck, embedder, nextId, docs, chunkRows, tasks, reply, del>>
    /\ UNCHANGED <<opened, created, qry, chats, sessions, messages,
                   llamaContext, held>>
    /\ UNCHANGED sideVars

\* searchSimilar(queryEmbedding, k = 5) called directly.
ApiSearchSimilar(kArg) ==
    /\ ApiQuiet
    /\ \E readOk \in BOOLEAN :
         IF ~opened
         THEN api' = [api EXCEPT !.last =
                        Called("searchSimilar", 0, opened, UninitMsg, {})]
         ELSE IF created /\ readOk
         THEN \E hits \in queryItems(index, Param(kArg, 5)) :
                api' = [api EXCEPT !.last =
                          Called("searchSimilar", 0, opened, "returned", hits)]
         ELSE api' = [api EXCEPT !.last =
                        Called("searchSimilar", 0, opened, StorageMsg, {})]
    /\ UNCHANGED <<ck, opened, created, qry, chats, sessions, messages,
                   llamaContext, held>>
    /\ UNCHANGED ingestVars
    /\ UNCHANGED sideVars

\* deleteDocumentChunks(documentId) called directly: if (!index) return,
\* else the listing.
ApiDeleteDocumentChunks(d) ==
    /\ ApiQuiet
    /\ \E listOk \in BOOLEAN :
         IF ~opened
         THEN /\ del' = del
              /\ api' = [api EXCEPT !.last =
                            Called("deleteDocumentChunks", d, opened,
                                   "returned", {})]
         ELSE IF created /\ listOk
         THEN /\ del' = [del EXCEPT ![d] = [pc |-> "items",
                                            todo |-> ItemsOf(index, d),
                                            via |-> "direct"]]
              /\ api' = [pc |-> "delete",
                         last |-> Called("deleteDocumentChunks", d, opened,
                                         "pending", {})]
         ELSE /\ del' = del
              /\ api' = [api EXCEPT !.last =
                            Called("deleteDocumentChunks", d, opened,
                                   StorageMsg, {})]
    /\ UNCHANGED <<ck, embedder, nextId, docs, chunkRows, index, tasks, reply>>
    /\ UNCHANGED <<opened, created, qry, chats, sessions, messages,
                   llamaContext, held>>
    /\ UNCHANGED sideVars

\* The for loop of deleteDocumentChunks is over: the direct call returns.
DeleteReturn(d) ==
    /\ del[d].pc = "items"
    /\ del[d].via = "direct"
    /\ del[d].todo = {}
    /\ del' = [del EXCEPT ![d] = DelIdle]
    /\ api' = [pc |-> "idle",
               last |-> [api.last EXCEPT !.outcome = "returned"]]
    /\ UNCHANGED <<ck, embedder, nextId, docs, chunkRows, index, tasks, reply>>
    /\ UNCHANGED <<opened, created, qry, chats, sessions, messages,
                   llamaContext, held>>
    /\ UNCHANGED sideVars

\* The process exits and starts again: the module's variables are reset,
\* calls in flight are gone, the storage stays.
Restart ==
    /\ opened
    /\ opened' = FALSE
    /\ api' = ApiIdle
    /\ del' = [d \in 1..MaxDocs |-> DelIdle]
    /\ cache' = CacheEmpty
    /\ UNCHANGED <<ck, embedder, nextId, docs, chunkRows, index, tasks, reply>>
    /\ UNCHANGED <<created, qry, chats, sessions, messages, llamaContext, held>>
    /\ UNCHANGED <<lst, bridge>>

----------------------------------------------------------------------------
(* rag/localai.js: generateEmbedding *)

NotLoadedMsg == "Embedding model not initialized"

InferenceMsg == "inference failed"

\* generateEmbedding(text): what it throws, Null when it returns a vector.
EmbedError(loaded, inferOk) ==
    IF ~loaded THEN NotLoadedMsg
    ELSE IF ~inferOk THEN InferenceMsg
    ELSE Null

\* A check that lets every string through.
MissingNever(str) == FALSE

\* !question, !query: an empty string is falsy.
Missing(str) == str = ""

----------------------------------------------------------------------------
(* search:query *)

QueryRequiredMsg == "Query string is required"

\* The query strings and the limits a caller passes (none: limit = 10).
Queries == {"", "fox"}

Limits == {Undefined, <<0>>, <<1>>, <<MaxLimit>>}

\* calls: which of generateEmbedding, searchSimilar and chatCompletion the
\* request has called; asked: the k it passed to searchSimilar (-1: none).
QryIdle ==
    [pc |-> "idle", query |-> "", limit |-> Undefined, error |-> Null,
     hits |-> {}, calls |-> {}, asked |-> 0 - 1]

\* A k that follows the limit however large.
SearchLimitUnclamped(limitArg) == Param(limitArg, 10)

\* { query, limit = 10 }, Math.min(limit, 50)
SearchLimit(limitArg) == Min(Param(limitArg, 10), 50)

\* A catch that replaces the error by one of its own.
RejectedGeneric(req, msg) ==
    [req EXCEPT !.pc = "rejected", !.error = "Internal error"]

\* catch (err) { logger.error(...); throw err }: the request ends with the
\* error that was thrown.
Rejected(req, msg) == [req EXCEPT !.pc = "rejected", !.error = msg]

\* ipcMain.handle("search:query") up to its first await.
QrySubmit(query, limit) ==
    /\ qry.pc = "idle"
    /\ qry' = IF Missing(query)
              THEN Rejected([qry EXCEPT !.query = query, !.limit = limit],
                            QueryRequiredMsg)
              ELSE [qry EXCEPT !.query = query, !.limit = limit,
                               !.pc = "embed"]
    /\ UNCHANGED <<ck, opened, created, api, chats, sessions, messages,
                   llamaContext, held>>
    /\ UNCHANGED ingestVars
    /\ UNCHANGED sideVars

\* await generateEmbedding(query)
QryEmbed ==
    /\ qry.pc = "embed"
    /\ \E inferOk \in BOOLEAN :
         qry' = IF EmbedError(embedder, inferOk) = Null
                THEN [qry EXCEPT !.pc = "search", !.calls = @ \cup {"embed"}]
                ELSE Rejected([qry EXCEPT !.calls = @ \cup {"embed"}],
                              EmbedError(embedder, inferOk))
    /\ UNCHANGED <<ck, opened, created, api, chats, sessions, messages,
                   llamaContext, held>>
    /\ UNCHANGED ingestVars
    /\ UNCHANGED sideVars

\* await searchSimilar(embedding, Math.min(limit, 50)), then the reply.
QrySearch ==
    /\ qry.pc = "search"
    /\ \E readOk \in BOOLEAN :
         IF ~opened
         THEN qry' = Rejected([qry EXCEPT !.calls = @ \cup {"search"},
                                          !.asked = SearchLimit(qry.limit)],
                              UninitMsg)
         ELSE IF created /\ readOk
         THEN \E hits \in queryItems(index, SearchLimit(qry.limit)) :
                qry' = [qry EXCEPT !.pc = "done", !.hits = hits,
                                   !.calls = @ \cup {"search"},
                                   !.asked = SearchLimit(qry.limit)]
         ELSE qry' = Rejected([qry EXCEPT !.calls = @ \cup {"search"},
                                          !.asked = SearchLimit(qry.limit)],
                              StorageMsg)
    /\ UNCHANGED <<ck, opened, created, api, chats, sessions, messages,
                   llamaContext, held>>
    /\ UNCHANGED ingestVars
    /\ UNCHANGED sideVars

QryStep == QryEmbed \/ QrySearch

----------------------------------------------------------------------------
(* chat:query, ragQuery and chatCompletion *)

ChatIds == 1..MaxChats

QuestionRequiredMsg == "Question is required"

ForeignKeyMsg == "FOREIGN KEY constraint failed"

LlmMsg == "LLM not initialized"

NoSequenceMsg == "No sequences left"

SessionMsg == "LlamaChatSession failed"

PromptMsg == "prompt failed"

Questions == {"", "fox"}

\* session_id of the request: none, or the id of the session that request 1
\* creates.
SessionArgs == {Undefined, <<1>>}

\* The two rag/pipeline.js of the repository: searchSimilar(queryEmbedding, k)
\* and the words that contextParts.join(sep) puts between two blocks.
Pipelines == {[k |-> 5, sepWords |-> 1], [k |-> 3, sepWords |-> 0]}

ChatIdle ==
    [pc |-> "idle", question |-> "", session |-> 0, error |-> Null,
     hits |-> {}, contextWords |-> 0, calls |-> {}]

\* repo.createMessage({ sessionId, role, content }): the row; its uuid is the
\* request and the role.
createMessage(c, sessionId, role) ==
    [id |-> <<c, role>>, session_id |-> sessionId, role |-> role]

\* Words of the content of each chunk of each file.
ChunkWords ==
    [f \in Files |->
        [k \in 1..Len(FileChunks[f]) |->
            Len(SplitWords(FileChunks[f][k].content))]]

\* Words of `[Source i: name (chunk n)]\ncontent`: five for the header.
BlockWords(hit) ==
    5 + ChunkWords[tasks[hit.document_id].file][hit.chunk_index + 1]

RECURSIVE SumBlocks(_)
SumBlocks(hits) ==
    IF hits = {} THEN 0
    ELSE LET h == CHOOSE x \in hits : TRUE
         IN  BlockWords(h) + SumBlocks(hits \ {h})

\* Words of contextParts.join(sep): every hit's block, whole.
ContextWords(hits, sepWords) ==
    SumBlocks(hits) + sepWords * Max(Cardinality(hits) - 1, 0)

\* ipcMain.handle("chat:query") up to its first await: the check of the
\* question, createSession when no session_id came, createMessage for the
\* user's question (a foreign-key error when the session does not exist).
ChatSubmit(c, question, sessionArg) ==
    /\ chats[c].pc = "idle"
    /\ LET req == [chats[c] EXCEPT !.question = question]
           sid == IF sessionArg = Undefined THEN c ELSE sessionArg[1]
           made == IF sessionArg = Undefined THEN sessions \cup {c}
                   ELSE sessions
       IN  IF Missing(question)
           THEN /\ chats' = [chats EXCEPT
                               ![c] = Rejected(req, QuestionRequiredMsg)]
                /\ UNCHANGED <<sessions, messages>>
           ELSE IF sid \notin made
           THEN /\ chats' = [chats EXCEPT ![c] = Rejected(req, ForeignKeyMsg)]
                /\ UNCHANGED <<sessions, messages>>
           ELSE /\ chats' = [chats EXCEPT
                               ![c] = [req EXCEPT !.pc = "embed",
                                                  !.session = sid]]
                /\ sessions' = made
                /\ messages' = messages \cup {createMessage(c, sid, "user")}
    /\ UNCHANGED <<ck, opened, created, api, qry, llamaContext, held>>
    /\ UNCHANGED ingestVars
    /\ UNCHANGED sideVars

\* ragQuery: await generateEmbedding(question)
ChatEmbed(c) ==
    /\ chats[c].pc = "embed"
    /\ \E inferOk \in BOOLEAN :
         chats' = [chats EXCEPT ![c] =
             IF EmbedError(embedder, inferOk) = Null
             THEN [@ EXCEPT !.pc = "search", !.calls = @ \cup {"embed"}]
             ELSE Rejected([@ EXCEPT !.calls = @ \cup {"embed"}],
                           EmbedError(embedder, inferOk))]
    /\ UNCHANGED <<ck, opened, created, api, qry, sessions, messages,
                   llamaContext, held>>
    /\ UNCHANGED ingestVars
    /\ UNCHANGED sideVars

\* ragQuery: await searchSimilar(queryEmbedding, k), the context string, then
\* chatCompletion up to its first await (it throws when llamaContext is
\* null).
ChatSearch(c) ==
    /\ chats[c].pc = "search"
    /\ \E readOk \in BOOLEAN, pipeline \in Pipelines :
         IF ~opened
         THEN chats' = [chats EXCEPT ![c] =
                 Rejected([@ EXCEPT !.calls = @ \cup {"search"}], UninitMsg)]
         ELSE IF ~(created /\ readOk)
         THEN chats' = [chats EXCEPT ![c] =
                 Rejected([@ EXCEPT !.calls = @ \cup {"search"}], StorageMsg)]
         ELSE \E hits \in queryItems(index, pipeline.k) :
                LET req == [chats[c] EXCEPT
                              !.hits = hits,
                              !.contextWords =
                                  ContextWords(hits, pipeline.sepWords),
                              !.calls = @ \cup {"search", "generate"}]
                IN  chats' = [chats EXCEPT ![c] =
                        IF llamaContext
                        THEN [req EXCEPT !.pc = "import"]
                        ELSE Rejected(req, LlmMsg)]
    /\ UNCHANGED <<ck, opened, created, api, qry, sessions, messages,
                   llamaContext, held>>
    /\ UNCHANGED ingestVars
    /\ UNCHANGED sideVars

\* chatCompletion after await import("node-llama-cpp"):
\* llamaContext.getSequence() throws when every sequence of the context is
\* taken; new LlamaChatSession(...) may throw, and is outside the try.
ChatAcquire(c) ==
    /\ chats[c].pc = "import"
    /\ \E sessionOk \in BOOLEAN :
         IF Cardinality(held) >= Sequences
         THEN /\ chats' = [chats EXCEPT ![c] = Rejected(@, NoSequenceMsg)]
              /\ held' = held
         ELSE /\ held' = held \cup {c}
              /\ chats' = [chats EXCEPT ![c] =
                     IF sessionOk THEN [@ EXCEPT !.pc = "prompt"]
                     ELSE Rejected(@, SessionMsg)]
    /\ UNCHANGED <<ck, opened, created, api, qry, sessions, messages,
                   llamaContext>>
    /\ UNCHANGED ingestVars
    /\ UNCHANGED sideVars

\* try { await session.prompt(...) } finally { session.dispose();
\* sequence.dispose() }, then createMessage for the answer and the reply.
ChatPrompt(c) ==
    /\ chats[c].pc = "prompt"
    /\ held' = held \ {c}
    /\ \E promptOk \in BOOLEAN :
         IF promptOk
         THEN /\ chats' = [chats EXCEPT ![c].pc = "done"]
              /\ messages' = messages \cup
                    {createMessage(c, chats[c].session, "assistant")}
         ELSE /\ chats' = [chats EXCEPT ![c] = Rejected(@, PromptMsg)]
              /\ messages' = messages
    /\ UNCHANGED <<ck, opened, created, api, qry, sessions, llamaContext>>
    /\ UNCHANGED ingestVars
    /\ UNCHANGED sideVars

ChatStep(c) == ChatEmbed(c) \/ ChatSearch(c) \/ ChatAcquire(c) \/ ChatPrompt(c)

----------------------------------------------------------------------------
(* documents:list *)

LstIdle == [n |-> 0, reply |-> <<>>]

\* ipcMain.handle("documents:list"): the cached list when there is one, else
\* repo.listDocuments(), stored with a ttl of 30 seconds.
List ==
    /\ lst.n < MaxLists
    /\ IF cache.has
       THEN /\ lst' = [n |-> lst.n + 1, reply |-> cache.value]
            /\ cache' = cache
       ELSE /\ lst' = [n |-> lst.n + 1, reply |-> docs]
            /\ cache' = cacheSet(docs)
    /\ UNCHANGED <<ck, bridge>>
    /\ UNCHANGED ingestVars
    /\ UNCHANGED queryVars

\* The ttl of the entry runs out.
Expire ==
    /\ cache.has
    /\ cache' = CacheEmpty
    /\ UNCHANGED <<ck, lst, bridge>>
    /\ UNCHANGED ingestVars
    /\ UNCHANGED queryVars

----------------------------------------------------------------------------
(* preload.js: window.electron.invoke *)

validChannels ==
    {"documents:list", "documents:upload", "documents:delete", "chat:query",
     "chat:sessions", "chat:messages", "search:query", "system:health",
     "system:stats", "system:info"}

\* Channels a page may name: the valid ones, channels that only the main
\* process uses, a misspelt one and made-up ones.
Channels ==
    validChannels \cup {"chat:token", "progress", "Documents:list",
                        "shell:exec", ""}

UnauthorizedMsg == "Unauthorized IPC channel"

BridgeIdle == [sent |-> {}, last |-> [channel |-> "", outcome |-> "none"]]

\* A bridge that forwards every channel.
AuthorizedAny(channel) == TRUE

\* validChannels.includes(channel)
Authorized(channel) == channel \in validChannels

\* invoke(channel, data): ipcRenderer.invoke(channel, data) for a valid
\* channel, else a rejected promise.
Invoke(channel) ==
    /\ bridge' = IF Authorized(channel)
                 THEN [sent |-> bridge.sent \cup {channel},
                       last |-> [channel |-> channel, outcome |-> "sent"]]
                 ELSE [sent |-> bridge.sent,
                       last |-> [channel |-> channel,
                                 outcome |-> UnauthorizedMsg]]
    /\ UNCHANGED <<ck, cache, lst>>
    /\ UNCHANGED ingestVars
    /\ UNCHANGED queryVars

----------------------------------------------------------------------------
(* Specifications *)

DocIds == 1..MaxDocs

IngestInit ==
    /\ embedder \in BOOLEAN
    /\ nextId = 1
    /\ docs = <<>>
    /\ chunkRows = {}
    /\ index = {}
    /\ tasks = <<>>
    /\ reply = <<>>
    /\ del = [d \in DocIds |-> DelIdle]

\* No request is in flight and the chat tables are empty.
QueryInit ==
    /\ api = ApiIdle
    /\ qry = QryIdle
    /\ chats = [c \in ChatIds |-> ChatIdle]
    /\ sessions = {}
    /\ messages = {}
    /\ held = {}
    /\ cache = CacheEmpty
    /\ lst = LstIdle
    /\ bridge = BridgeIdle

\* main.js has run initDB, initElasticsearch and initAI, so the index is open;
\* no action of Next reads llamaContext.
Init ==
    /\ ck = CkIdle
    /\ IngestInit
    /\ QueryInit
    /\ opened = TRUE
    /\ created = TRUE
    /\ llamaContext = TRUE

Next ==
    \/ \E f \in Files : Upload(f)
    \/ \E d \in DocIds : TaskStep(d)
    \/ \E d \in DocIds : DeleteStart(d) \/ DeleteItem(d) \/ DeleteRow(d)

Spec == Init /\ [][Next]_vars

\* The event loop runs every queued callback, and every awaited call
\* returns or throws.
FairSpec == Spec /\ \A d \in DocIds : WF_vars(TaskStep(d))

\* rag/elasticsearch.js is loaded and initElasticsearch has not run; there is
\* no storage yet.
VectorInit ==
    /\ ck = CkIdle
    /\ IngestInit
    /\ embedder = TRUE
    /\ QueryInit
    /\ opened = FALSE
    /\ created = FALSE
    /\ llamaContext = TRUE

VectorNext ==
    \/ InitOpen
    \/ InitCreate
    \/ \E item \in ApiItems : ApiIndexChunk(item)
    \/ \E kArg \in ApiKs : ApiSearchSimilar(kArg)
    \/ \E d \in DocIds :
          ApiDeleteDocumentChunks(d) \/ DeleteItem(d) \/ DeleteReturn(d)
    \/ Restart

VectorSpec == VectorInit /\ [][VectorNext]_vars

\* Requests of the renderer while documents are ingested.
SearchNext ==
    \/ \E f \in Files : Upload(f)
    \/ \E d \in DocIds : TaskStep(d)
    \/ \E query \in Queries, limit \in Limits : QrySubmit(query, limit)
    \/ QryStep

SearchSpec == Init /\ [][SearchNext]_vars

\* As Init; neither model need have loaded.
ChatInit ==
    /\ ck = CkIdle
    /\ IngestInit
    /\ QueryInit
    /\ opened = TRUE
    /\ created = TRUE
    /\ llamaContext \in BOOLEAN

ChatNext ==
    \/ \E f \in Files : Upload(f)
    \/ \E d \in DocIds : TaskStep(d)
    \/ \E c \in ChatIds, question \in Questions, sessionArg \in SessionArgs :
          ChatSubmit(c, question, sessionArg)
    \/ \E c \in ChatIds : ChatStep(c)

ChatSpec == ChatInit /\ [][ChatNext]_vars

\* The requests alone, on an index that holds nothing.
RequestNext ==
    \/ \E query \in Queries, limit \in Limits : QrySubmit(query, limit)
    \/ QryStep
    \/ \E c \in ChatIds, question \in Questions, sessionArg \in SessionArgs :
          ChatSubmit(c, question, sessionArg)
    \/ \E c \in ChatIds : ChatStep(c)

RequestSpec == ChatInit /\ [][RequestNext]_vars

\* The document handlers with documents:list.
ListNext ==
    \/ \E f \in Files : Upload(f)
    \/ \E d \in DocIds : TaskStep(d)
    \/ \E d \in DocIds : DeleteStart(d) \/ DeleteItem(d) \/ DeleteRow(d)
    \/ List
    \/ Expire

ListSpec == Init /\ [][ListNext]_vars

\* The document handlers in a process that may exit at any moment.
CrashNext ==
    \/ \E f \in Files : Upload(f)
    \/ \E d \in DocIds : TaskStep(d)
    \/ \E d \in DocIds : DeleteStart(d) \/ DeleteItem(d) \/ DeleteRow(d)
    \/ Crash

CrashSpec == Init /\ [][CrashNext]_vars

\* The page calls window.electron.invoke.
BridgeNext == \E channel \in Channels : Invoke(channel)

BridgeSpec == Init /\ [][BridgeNext]_vars

ChunkInit ==
    /\ \E text \in Texts, sizeArg \in Args, overlapArg \in Args :
         ck = CkCalled(text, sizeArg, overlapArg)
    /\ IngestInit
    /\ embedder = TRUE
    /\ QueryInit
    /\ opened = TRUE
    /\ created = TRUE
    /\ llamaContext = TRUE

ChunkSpec == ChunkInit /\ [][ChunkNext]_vars

ChunkFairSpec == ChunkSpec /\ WF_vars(ChunkNext)

----------------------------------------------------------------------------
(* Properties of chunkText *)

\* C7: chunkText terminates for every text and every integer chunkSize and
\* overlap (overlap >= chunkSize and chunkSize = 0 included): each iteration
\* of the loop moves the window start i forward by max(chunkSize - overlap,
\* 1), which is at least 1, and the call reaches its return.
ChunkTerminates ==
    /\ [][(ck.pc = "loop" /\ ck'.pc = "loop") =>
            /\ ck'.i = ck.i + (IF ck.chunkSize - ck.overlap > 1
                               THEN ck.chunkSize - ck.overlap ELSE 1)
            /\ ck'.i > ck.i]_vars
    /\ <>(ck.pc = "done")

\* A call with chunkSize = 0 and overlap > chunkSize that went round the
\* loop more than once and returned.
ChunkDegenerateDone ==
    /\ ck.pc = "done"
    /\ ck.sizeArg = <<0>>
    /\ ck.overlapArg = <<2>>
    /\ Len(ck.chunks) >= 2

\* The words of chunk k of the finished call.
ChunkWordsOf(k) == SplitWords(ck.chunks[k].content)

\* C8: for a non-empty text and 0 <= overlap < chunkSize, chunk k (from 0)
\* is the window of up to chunkSize words that starts k * max(chunkSize -
\* overlap, 1) words into the text, and the chunks, each after the first
\* without the words it shares with the chunk before it, concatenate to the
\* original word sequence.
ChunkWindowsReconstruct ==
    (/\ ck.pc = "done"
     /\ Len(ck.text) > 0
     /\ 0 <= ck.overlap
     /\ ck.overlap < ck.chunkSize) =>
        LET step == IF ck.chunkSize - ck.overlap > 1
                    THEN ck.chunkSize - ck.overlap ELSE 1
            original == SplitWords(ck.text)
            m == Len(ck.chunks)
            shared(k) == Min(Max(Len(ChunkWordsOf(k - 1)) - step, 0),
                             Len(ChunkWordsOf(k)))
            rebuilt[k \in 0..m] ==
                IF k = 0 THEN <<>>
                ELSE IF k = 1 THEN ChunkWordsOf(1)
                ELSE rebuilt[k - 1] \o SubSeq(ChunkWordsOf(k), shared(k) + 1,
                                              Len(ChunkWordsOf(k)))
        IN  /\ \A k \in 1..m :
                 ChunkWordsOf(k) =
                    SubSeq(original, (k - 1) * step + 1,
                           Min((k - 1) * step + ck.chunkSize, Len(original)))
            /\ rebuilt[m] = original

\* Four words laid out with extra whitespace, chunked 2 by 2 with 1 shared.
ChunkOverlapDone ==
    /\ ck.pc = "done"
    /\ ck.sizeArg = <<2>>
    /\ ck.overlapArg = <<1>>
    /\ Len(ck.words) = 4
    /\ Len(ck.chunks) = 4
    /\ ck.text # Join(ck.words)

Space == <<" ">>

FoxCalled ==
    /\ ck.pc = "done"
    /\ ck.text = FoxText
    /\ ck.sizeArg = <<3>>
    /\ ck.overlapArg = <<1>>

FoxContents == [k \in 1..Len(ck.chunks) |-> ck.chunks[k].content]

FoxIndices == [k \in 1..Len(ck.chunks) |-> ck.chunks[k].index]

FoxFirstThree ==
    << FoxWords[1] \o Space \o FoxWords[2] \o Space \o FoxWords[3],
       FoxWords[3] \o Space \o FoxWords[4] \o Space \o FoxWords[5],
       FoxWords[5] \o Space \o FoxWords[6] \o Space \o FoxWords[7] >>

Defaulted(arg) ==
    IF arg # Undefined /\ arg[1] <= 0 THEN Undefined ELSE arg

\* C10 as stated: a call with chunkSize <= 0 or overlap <= 0 returns what
\* the call with the default (500, 50) in place of that argument returns.
InvalidArgsDefaulted ==
    (/\ ck.pc = "done"
     /\ \/ (ck.sizeArg # Undefined /\ ck.sizeArg[1] <= 0)
        \/ (ck.overlapArg # Undefined /\ ck.overlapArg[1] <= 0)) =>
        ck.chunks = chunkText(ck.text, Defaulted(ck.sizeArg),
                              Defaulted(ck.overlapArg))

----------------------------------------------------------------------------
(* Properties of ingestion *)

Settled == {"indexed", "error"}

\* C1: a document row is created with status 'processing'; the only status
\* changes are processing -> indexed and processing -> error, so a status
\* of indexed or error never changes again.
StatusTransitions ==
    [][\A d \in DocIds :
         /\ (d \notin DOMAIN docs /\ d \in DOMAIN docs') =>
                docs'[d].status = "processing"
         /\ (/\ d \in DOMAIN docs
             /\ d \in DOMAIN docs'
             /\ docs'[d].status # docs[d].status) =>
                (docs[d].status = "processing" /\ docs'[d].status \in Settled)
      ]_vars

\* One document has been indexed and another has ended in error.
BothSettled ==
    \E d, e \in DOMAIN docs :
        /\ docs[d].status = "indexed"
        /\ docs[e].status = "error"
        /\ tasks[d].pc = "done"
        /\ tasks[e].pc = "done"

\* Every chunk of the task's document failed to embed or to insert.
AllChunksFailed(t) ==
    /\ t.parsed
    /\ Len(t.outcome) > 0
    /\ \A k \in 1..Len(t.outcome) : t.outcome[k] = "failed"

\* C2 as stated: when every chunk of a document fails (zero chunks succeed),
\* the ingestion ends in status 'error', never 'indexed'.
AllFailedEndsInError ==
    \A d \in DOMAIN tasks \cap DOMAIN docs :
        (tasks[d].pc = "done" /\ AllChunksFailed(tasks[d])) =>
            docs[d].status = "error"

\* C3: a chunk whose embedding or insertion fails is skipped and the loop
\* goes on: the chunks are taken in order, once past the loop every chunk
\* has been tried, and a document with a chunk that succeeded ends indexed,
\* whichever of its other chunks failed.
ChunkFailureSkipsOnlyThatChunk ==
    \A d \in DOMAIN tasks :
        LET t == tasks[d]
            n == Len(t.outcome)
        IN  /\ \A k \in 1..n : (t.outcome[k] = "pending") <=> (k > t.pos)
            /\ (t.pc \in {"embed", "insert"}) => t.pos < n
            /\ (t.pc \in {"finish", "done"} /\ t.parsed) => t.pos = n
            /\ t.indexed = Cardinality({k \in 1..n : t.outcome[k] = "indexed"})
            /\ (/\ t.pc = "done"
                /\ t.indexed > 0
                /\ d \in DOMAIN docs) => docs[d].status = "indexed"

\* The first chunk of a document failed, its second chunk was inserted, and
\* the document ended indexed.
SkippedThenIndexed ==
    \E d \in DOMAIN tasks \cap DOMAIN docs :
        /\ tasks[d].pc = "done"
        /\ tasks[d].outcome = <<"failed", "indexed">>
        /\ [document_id |-> d, chunk_index |-> 1] \in index
        /\ docs[d].status = "indexed"

IsBlank(text) == \A p \in 1..Len(text) : text[p] \in Whitespace

\* C4: a document whose extracted text is empty or whitespace-only has zero
\* chunks, nothing of it is ever inserted into the index, and its ingestion
\* ends at once in status 'error' with the "no text content" message.
BlankTextEndsInError ==
    \A d \in DOMAIN tasks :
        (tasks[d].parsed /\ IsBlank(FileText(tasks[d].file))) =>
            /\ Len(FileChunks[tasks[d].file]) = 0
            /\ tasks[d].pc = "done"
            /\ ItemsOf(index, d) = {}
            /\ d \in DOMAIN docs =>
                  /\ docs[d].status = "error"
                  /\ docs[d].error_msg = NoTextMsg

\* A whitespace-only file was read and its document ended in error.
BlankFileRejected ==
    \E d \in DOMAIN tasks \cap DOMAIN docs :
        /\ tasks[d].file = "blank.txt"
        /\ tasks[d].parsed
        /\ docs[d].status = "error"

\* C5: every uploaded document's task runs to its end, and by then the
\* document, unless its row has been deleted, is indexed or in error: no
\* failure leaves it in 'processing'.
EveryUploadSettles ==
    \A d \in DocIds :
        (d \in DOMAIN tasks) ~>
            (/\ d \in DOMAIN tasks
             /\ tasks[d].pc = "done"
             /\ d \in DOMAIN docs => docs[d].status \in Settled)

\* A file that could not be read: the failure is recorded on the document.
ReadFailureRecorded ==
    \E d \in DOMAIN tasks \cap DOMAIN docs :
        /\ tasks[d].pc = "done"
        /\ ~tasks[d].parsed
        /\ docs[d].status = "error"
        /\ docs[d].error_msg = ReadErrorMsg

\* C6: documents:upload returns the new record, status 'processing', while
\* the document's task is only queued: nothing of the file is parsed,
\* embedded or inserted by then, and every step of that work is taken by
\* the task after the reply.
UploadRepliesFirst ==
    [][\A d \in DocIds :
         /\ (d \notin DOMAIN reply /\ d \in DOMAIN reply') =>
                /\ reply'[d].status = "processing"
                /\ tasks'[d].pc = "scheduled"
                /\ ~tasks'[d].parsed
                /\ tasks'[d].pos = 0
                /\ ItemsOf(index', d) = {}
         /\ (d \in DOMAIN tasks' /\ tasks'[d].pc # "scheduled") =>
                d \in DOMAIN reply
      ]_vars

\* The upload has replied and the task has not started.
RepliedNotStarted ==
    \E d \in DOMAIN reply :
        /\ reply[d].status = "processing"
        /\ tasks[d].pc = "scheduled"
        /\ docs[d].status = "processing"

----------------------------------------------------------------------------
(* Properties of the vector index *)

\* A direct deleteDocumentChunks(d) made on an open index has returned.
DeleteReturned ==
    /\ api.pc = "idle"
    /\ api.last.op = "deleteDocumentChunks"
    /\ api.last.open
    /\ api.last.outcome = "returned"

\* C11: after any inserts, deleteDocumentChunks(d) on the open index removes
\* exactly the items whose document_id is d: a step of the call removes one
\* listed item of d and adds none, an item leaves the index only by such a
\* step, and when the call has returned no item of d is stored.  For a
\* document with no items the listing is empty and the call (unless the
\* process exits first) returns without throwing and without a change to
\* the index.
DeleteRemovesExactlyTheDocument ==
    /\ [][/\ \A it \in index \ index' :
               /\ del[it.document_id].pc = "items"
               /\ it \in del[it.document_id].todo
          /\ (del' # del /\ api'.last.op = "deleteDocumentChunks")
                => index' \subseteq index
          /\ \A d \in DocIds :
               (del[d].pc = "items" /\ del[d].todo = {} /\ del'[d] # del[d]
                  /\ opened')
                 => /\ api'.last.outcome = "returned"
                    /\ index' = index]_vars
    /\ [](DeleteReturned => ItemsOf(index, api.last.doc) = {})

\* A delete of document 1 has returned while document 2 keeps its items.
DeletedOneKeptOther ==
    /\ DeleteReturned
    /\ api.last.doc = 1
    /\ ItemsOf(index, 2) = {[document_id |-> 2, chunk_index |-> 0],
                            [document_id |-> 2, chunk_index |-> 1]}

\* C12: an export of rag/elasticsearch.js called while the module's index is
\* null throws "Vector DB not initialized".
UninitializedCallsThrow ==
    (api.last.op \in {"indexChunk", "searchSimilar", "deleteDocumentChunks"}
       /\ ~api.last.open)
      => api.last.outcome = UninitMsg

\* C13: initElasticsearch creates the index only when no storage exists, and
\* no step of it removes or adds an item: a second call, or a first call
\* after a restart, finds the storage and leaves it as it is.
InitIsIdempotent ==
    /\ [](api.pc = "create" => ~created)
    /\ [][(api'.last.op = "initElasticsearch" /\ api' # api)
            => index' = index]_vars

\* initElasticsearch has returned over a storage that holds items.
ReopenedWithItems ==
    /\ api.pc = "idle"
    /\ api.last.op = "initElasticsearch"
    /\ api.last.outcome = "returned"
    /\ ~api.last.open
    /\ Cardinality(index) >= 2

----------------------------------------------------------------------------
(* Properties of search:query and chat:query *)

\* The ingestion of document d is between two chunks.
Ingesting(d) == d \in DOMAIN tasks /\ tasks[d].pc \in {"embed", "insert"}

Generating(c) == chats[c].pc \in {"import", "prompt", "done"}

\* C16: the context string passed to generation fits the context of the
\* model: a word is at least one token, so it has at most CONTEXT_SIZE
\* words.
ContextFitsTheModel ==
    \A c \in ChatIds : Generating(c) => chats[c].contextWords <= CONTEXT_SIZE

\* The request is over, by a reply or a rejection.
Ended(c) == chats[c].pc \in {"done", "rejected"}

\* C17: a generation call that is over holds no context sequence.
EndedCallsHoldNoSequence ==
    \A c \in ChatIds : Ended(c) => c \notin held

\* C18: at most one generation call holds the context at a time, and a call
\* that finds the context taken waits: it is not rejected for want of a
\* sequence.
GenerationCallsQueue ==
    /\ Cardinality({c \in ChatIds : chats[c].pc = "prompt"}) <= 1
    /\ \A c \in ChatIds : chats[c].error # NoSequenceMsg

\* C19: chat:query with an empty question and search:query with an empty
\* query are rejected at once, before generateEmbedding, searchSimilar or
\* chatCompletion is called and before a session or a message is created.
EmptyInputRejectedFirst ==
    /\ \A c \in ChatIds :
         (chats[c].pc # "idle" /\ chats[c].question = "") =>
            /\ chats[c].pc = "rejected"
            /\ chats[c].error = QuestionRequiredMsg
            /\ chats[c].calls = {}
            /\ c \notin sessions
            /\ \A m \in messages : m.id[1] # c
    /\ (qry.pc # "idle" /\ qry.query = "") =>
            /\ qry.pc = "rejected"
            /\ qry.error = QueryRequiredMsg
            /\ qry.calls = {}

\* An empty question and an empty query were both rejected.
EmptyInputsRejected ==
    /\ qry.pc = "rejected" /\ qry.query = ""
    /\ chats[1].pc = "rejected" /\ chats[1].question = ""
    /\ chats[2].pc = "done"

\* C20: a rejected chat query leaves the chat tables as they were: no
\* session and no message that the request created is stored.
RejectedChatLeavesNoTrace ==
    \A c \in ChatIds :
        chats[c].pc = "rejected" =>
            /\ c \notin sessions
            /\ \A m \in messages : m.id[1] # c

----------------------------------------------------------------------------
(* Further properties of chunkText *)

\* Chunk offsets of the finished call start at 0 and end a content's length
\* after their start.
OffsetsSpanContents ==
    /\ Len(ck.chunks) > 0 => ck.chunks[1].startChar = 0
    /\ \A k \in 1..Len(ck.chunks) :
         ck.chunks[k].endChar = ck.chunks[k].startChar + Len(ck.chunks[k].content)

\* C26 as stated: start_char of chunk 0 is 0, end_char(k) = start_char(k) +
\* length(content_k), and start_char(k + 1) = end_char(k) + 1: one separator
\* is counted between two chunks.
OffsetsCountSeparator ==
    ck.pc = "done" =>
        /\ OffsetsSpanContents
        /\ \A k \in 1..(Len(ck.chunks) - 1) :
             ck.chunks[k + 1].startChar = ck.chunks[k].endChar + 1

\* C26, amended: start_char of chunk 0 is 0, end_char(k) = start_char(k) +
\* length(content_k), and start_char(k + 1) = end_char(k): the offsets
\* accumulate the lengths of the joined texts and no separator.
OffsetsAccumulateLengths ==
    ck.pc = "done" =>
        /\ OffsetsSpanContents
        /\ \A k \in 1..(Len(ck.chunks) - 1) :
             ck.chunks[k + 1].startChar = ck.chunks[k].endChar

\* A call that returned three chunks of more than one word each.
ThreeChunksWithOffsets ==
    /\ ck.pc = "done"
    /\ Len(ck.chunks) = 3
    /\ ck.sizeArg = <<2>>
    /\ ck.overlapArg = <<1>>
    /\ ck.chunks[3].startChar > ck.chunks[2].startChar
    /\ ck.chunks[2].startChar > 0

----------------------------------------------------------------------------
(* preload.js *)

\* C25: invoke(channel, data) is forwarded to the main process only when the
\* channel is one of the ten whitelisted channels; for every other channel
\* the call is rejected with the error "Unauthorized IPC channel" and nothing
\* is sent to the main process.
BridgeForwardsOnlyWhitelisted ==
    [][/\ Cardinality(validChannels) = 10
       /\ bridge' # bridge =>
             LET channel == bridge'.last.channel
             IN  IF channel \in validChannels
                 THEN /\ bridge'.last.outcome = "sent"
                      /\ bridge'.sent = bridge.sent \cup {channel}
                 ELSE /\ bridge'.last.outcome = UnauthorizedMsg
                      /\ bridge'.sent = bridge.sent]_vars

\* Every whitelisted channel has been forwarded and a call on a channel of
\* the main process's own has just been rejected.
AllForwardedOneRejected ==
    /\ bridge.sent = validChannels
    /\ bridge.last = [channel |-> "chat:token", outcome |-> UnauthorizedMsg]

----------------------------------------------------------------------------
(* documents:list and the cache *)

\* C29: for every sequence of upload, ingestion completion, delete and list
\* operations, each documents:list call returns exactly the documents and
\* statuses that are in the metadata store at that moment.
ListReturnsTheStore ==
    [][lst'.n # lst.n => lst'.reply = docs]_vars

----------------------------------------------------------------------------
(* documents:delete and the background task *)

\* C23: the metadata row of a document is deleted only after all index items
\* of that document have been removed; when removing an index item fails, the
\* row is left in place and the request ends.
RowDeletedAfterItems ==
    [][\A d \in DocIds :
         /\ (d \in DOMAIN docs /\ d \notin DOMAIN docs') =>
                ItemsOf(index, d) = {}
         /\ (del[d].pc = "items" /\ del'[d].pc = "idle"
                /\ d \in DOMAIN docs') =>
                docs' = docs
      ]_vars

\* C24: a crash between the two steps of document deletion (removing the
\* index items, removing the metadata row) never leaves the row of an indexed
\* document, every chunk of which was inserted, whose index items are gone; it
\* leaves at worst index items whose row is gone.
CrashLeavesNoOrphanedMetadata ==
    \A d \in DocIds :
        del[d].pc = "crashed" =>
            ~(/\ d \in DOMAIN docs
              /\ docs[d].status = "indexed"
              /\ tasks[d].indexed = Len(FileChunks[tasks[d].file])
              /\ ItemsOf(index, d) = {})

\* C27: once a document's delete has completed and its ingestion task has
\* finished, the vector index holds no item with that document's id, however
\* the delete was interleaved with the task's inserts.
DeletedDocumentLeavesNoItems ==
    \A d \in DocIds :
        (/\ d \in DOMAIN tasks
         /\ d \notin DOMAIN docs
         /\ tasks[d].pc = "done"
         /\ del[d].pc = "idle") => ItemsOf(index, d) = {}

\* C28: whenever a document has status "indexed", its chunk_count and the
\* number of its chunk rows both equal the number of index items with its
\* document_id.
IndexedCountsAgree ==
    \A d \in DOMAIN docs :
        docs[d].status = "indexed" =>
            /\ docs[d].chunk_count = Cardinality(ItemsOf(index, d))
            /\ Cardinality({r \in chunkRows : r[1] = d})
                  = Cardinality(ItemsOf(index, d))

----------------------------------------------------------------------------
(* ragQuery: errors *)

\* C21: an error raised by the embedding step, the index search or the
\* generation step of ragQuery reaches the caller of chat:query unchanged,
\* and no later step of embed, search, build context, generate runs after the
\* failing one.
ErrorsReachTheCaller ==
    \A c \in ChatIds :
        chats[c].pc = "rejected" =>
            /\ \/ /\ chats[c].error \in {QuestionRequiredMsg, ForeignKeyMsg}
                  /\ chats[c].calls = {}
               \/ /\ chats[c].error = EmbedError(embedder, FALSE)
                  /\ chats[c].calls = {"embed"}
               \/ /\ chats[c].error = StorageMsg
                  /\ chats[c].calls = {"embed", "search"}
               \/ /\ chats[c].error = LlmMsg
                  /\ ~llamaContext
                  /\ chats[c].calls = {"embed", "search", "generate"}
               \/ /\ chats[c].error \in {NoSequenceMsg, SessionMsg, PromptMsg}
                  /\ llamaContext
                  /\ chats[c].calls = {"embed", "search", "generate"}
            /\ "search" \notin chats[c].calls =>
                  chats[c].hits = {} /\ chats[c].contextWords = 0
            /\ createMessage(c, chats[c].session, "assistant") \notin messages

\* One chat:query failed in the index search and the other in the prompt.
SearchAndPromptFailed ==
    /\ chats[1].pc = "rejected" /\ chats[1].error = StorageMsg
    /\ chats[2].pc = "rejected" /\ chats[2].error = PromptMsg

----------------------------------------------------------------------------
(* search:query: the limit *)

\* C22: search:query never asks the index for more than 50 hits and returns
\* at most min(limit, 50) results, for every limit a caller passes (10 when
\* it passes none).
SearchClampsLimit ==
    /\ qry.asked <= 50
    /\ "search" \in qry.calls =>
          /\ qry.asked >= 0
          /\ qry.asked <= Param(qry.limit, 10)
    /\ qry.pc = "done" =>
          /\ Cardinality(qry.hits) <= 50
          /\ Cardinality(qry.hits) <= Param(qry.limit, 10)

\* A search with a limit above 50 asked the index for 50 hits, and the index
\* held more items than a limit of 1 lets through.
ClampedAtFifty ==
    /\ qry.pc = "done"
    /\ qry.limit = <<MaxLimit>>
    /\ qry.asked = 50
    /\ Cardinality(index) > 1
    /\ qry.hits = index

====
